---- MODULE Spec2Model ----
(***************************************************************************)
(* A model of dsalgos.dstructs.Node: the parent / children / previous /    *)
(* next_ relations of a set of Node objects, the constructor, the three    *)
(* property setters, the plain `children` attribute and the derived read   *)
(* accessors.  Every operation is modelled as the interpreter runs it,     *)
(* exceptions included: an exception leaves the objects as they were at    *)
(* the point where it was raised.                                          *)
(***************************************************************************)
EXTENDS Integers, Sequences, FiniteSets, TLC

\* ---------------------------------------------------------------- bounds
MaxNodes == 3          \* Node objects ever allocated
MaxOps == 4            \* operations performed in one behaviour
MaxChildrenArg == 1    \* length of a children collection passed by a caller
MaxDatas == 2          \* Data objects ever allocated
MaxDataOps == 3        \* operations on Data objects in one behaviour
MaxArgs == 2           \* positional values passed to Data(...)
MaxVal == 2            \* distinct values stored in a Data

\* -------------------------------------------------------------- values
None == 0              \* the value None
Unset == 0 - 1         \* an instance attribute that was never assigned
NonNode == 0 - 2       \* an argument that is neither None nor a Node

\* The interpreter's recursion limit, scaled to the model: deep enough for
\* every terminating chain of calls over MaxNodes objects (a terminating
\* chain of __eq__ calls never repeats a pair of operands).
RecursionLimit == MaxNodes * MaxNodes + 4

NodeIds == 1 .. MaxNodes
IsNode(x) == x \in NodeIds

\* payloads: Data() (the default) and None (any object is accepted)
Payloads == {"Data", "None"}

\* A Node object's instance dictionary.
NewObject == [data |-> "Data", parent |-> None, children |-> << >>,
              previous |-> Unset, next |-> Unset, action |-> Unset]

VARIABLES
    nodes,      \* the Node objects: object id -> instance dictionary
    created,    \* how many Node objects exist (ids 1 .. created)
    ops,        \* operations performed so far
    payload,    \* the payload the caller gives its nodes
    valid,      \* every call so far passed Nodes or None, never another value
    lastOp,     \* the call just made
    outcome,    \* "none", or the exception the call raised
    result,     \* the value a read accessor returned
    datas,      \* the Data objects: object id -> instance dictionary
    dcreated    \* how many Data objects exist (ids 1 .. dcreated)
vars == << nodes, created, ops, payload, valid, lastOp, outcome, result,
           datas, dcreated >>
nodeVars == << nodes, created, payload, valid >>
dataVars == << datas, dcreated >>

\* the objects a call leaves and the exception it raised, "none" if none
Ok(st) == [st |-> st, exc |-> "none"]
Raise(st, e) == [st |-> st, exc |-> e]

\* ---------------------------------------------------------------- Data
DataIds == 1 .. MaxDatas
NonData == 0 - 3       \* an operand that is not a Data
Vals == 1 .. MaxVal
Names == {"a", "b"}    \* keyword names

\* dictionary keys: Python keeps ints and strings in one key space
IntKey(i) == [kind |-> "int", i |-> i, s |-> ""]
StrKey(s) == [kind |-> "str", i |-> 0, s |-> s]
EmptyDict == [k \in {} |-> None]

\* A Data object's instance dictionary.
NewData == [args |-> << >>, kwargs |-> EmptyDict]

\* {**d, **e}: the entries of both, those of e winning
Merge(d, e) ==
    [k \in DOMAIN d \cup DOMAIN e |-> IF k \in DOMAIN e THEN e[k] ELSE d[k]]

\* dict(enumerate(args, 1)): positions counted from one
EnumerateFromOne(args) ==
    [k \in {IntKey(i) : i \in 1 .. Len(args)} |-> args[k.i]]

\* dict(enumerate(args))
Enumerate(args) ==
    [k \in {IntKey(i - 1) : i \in 1 .. Len(args)} |-> args[k.i + 1]]

\* Data.data
Data_data(obj) == Merge(Enumerate(obj.args), obj.kwargs)

\* Data.__init__
Data__init__(args, kwargs) == [args |-> args, kwargs |-> kwargs]

\* a call f(**d, **e) is accepted: every keyword is a string and none is
\* given twice
KeywordsOk(d, e) ==
    /\ \A k \in DOMAIN d \cup DOMAIN e : k.kind = "str"
    /\ DOMAIN d \cap DOMAIN e = {}

\* Data.__add__: the exception raised and the Data returned
Data__add__(st, self, data) ==
    IF data = NonData THEN [exc |-> "TypeError", val |-> None]
    ELSE IF ~KeywordsOk(st[self].kwargs, st[data].kwargs)
         THEN [exc |-> "TypeError", val |-> None]
    ELSE [exc |-> "none",
          val |-> Data__init__(st[self].args \o st[data].args,
                               Merge(st[self].kwargs, st[data].kwargs))]

\* Data.__iadd__: the objects afterwards and the exception raised; the
\* raise statement follows the if block, it is not its else branch
Data__iadd__(st, self, data) ==
    IF data = NonData THEN Raise(st, "TypeError")
    ELSE Raise([st EXCEPT ![self] =
                   [args |-> st[self].args \o st[data].args,
                    kwargs |-> Merge(st[self].kwargs, st[data].kwargs)]],
               "TypeError")

\* Data.__setitem__: a tuple refuses item assignment with TypeError, so
\* the value always lands in kwargs
Data__setitem__(st, self, key, value) ==
    [st EXCEPT ![self].kwargs = Merge(@, [k \in {key} |-> value])]

\* Data.__eq__ and the built-in equality on the payloads modelled
DataEq(d, e) == d = e

\* `self.data == node.parent`: a Data never equals a Node or None; the
\* payload None equals a parent that is None
DataEqParent(d, p) == d = "None" /\ p = None

RECURSIVE NodeEq(_, _, _, _)
RECURSIVE ValEq(_, _, _, _)
RECURSIVE ListEqFrom(_, _, _, _, _)

\* `a and b` on comparison results "T", "F" or the name of the exception
\* raised: b is evaluated only when a is true
AndAlso(a, b) == IF a # "T" THEN a ELSE b

\* x == y for two attribute values
ValEq(st, x, y, fuel) ==
    IF IsNode(x) /\ IsNode(y) THEN NodeEq(st, x, y, fuel)
    ELSE IF x = y THEN "T" ELSE "F"

\* self.<attr> == node.<attr> for an attribute the constructor may not
\* have assigned yet
AttrEq(st, x, y, fuel) ==
    IF x = Unset \/ y = Unset THEN "AttributeError" ELSE ValEq(st, x, y, fuel)

\* list.__eq__ from index i on: items are compared by identity first
ListEqFrom(st, xs, ys, i, fuel) ==
    IF i > Len(xs) THEN "T"
    ELSE IF xs[i] = ys[i] THEN ListEqFrom(st, xs, ys, i + 1, fuel)
    ELSE AndAlso(ValEq(st, xs[i], ys[i], fuel),
                 ListEqFrom(st, xs, ys, i + 1, fuel))

ListEq(st, xs, ys, fuel) ==
    IF Len(xs) # Len(ys) THEN "F" ELSE ListEqFrom(st, xs, ys, 1, fuel)

\* Node.__eq__(self, node) with node a Node
NodeEq(st, self, node, fuel) ==
    IF fuel = 0 THEN "RecursionError"
    ELSE IF ~DataEq(st[self].data, st[node].data) THEN "F"
    ELSE IF ~DataEqParent(st[self].data, st[node].parent) THEN "F"
    ELSE AndAlso(ListEq(st, st[self].children, st[node].children, fuel - 1),
         AndAlso(AttrEq(st, st[self].previous, st[node].previous, fuel - 1),
         AndAlso(AttrEq(st, st[self].next, st[node].next, fuel - 1),
                 AttrEq(st, st[self].action, st[node].action, fuel - 1))))

\* not e, for a comparison result e
Negate(e) == IF e = "T" THEN "F" ELSE IF e = "F" THEN "T" ELSE e

\* `self != other`: the inverse of __eq__, or the exception it raised
NodeNe(st, self, other, fuel) ==
    Negate(IF IsNode(other) THEN NodeEq(st, self, other, fuel) ELSE "F")

Found(i) == [exc |-> "none", idx |-> i]

\* the outcome of one comparison r of a list search at index i
SearchStep(r, i, rest) ==
    IF r = "T" THEN Found(i)
    ELSE IF r = "F" THEN rest
    ELSE [exc |-> r, idx |-> 0]

\* `value in xs` / the search of xs.remove(value): the index of the first
\* item that is `value` or equals it (item == value, identity first), 0 if
\* there is none; exc is the exception raised by a comparison
RECURSIVE IndexFrom(_, _, _, _, _)
IndexFrom(st, xs, value, i, fuel) ==
    IF i > Len(xs) THEN Found(0)
    ELSE IF xs[i] = value THEN Found(i)
    ELSE SearchStep(ValEq(st, xs[i], value, fuel), i,
                    IndexFrom(st, xs, value, i + 1, fuel))

\* ------------------------------------------------------------- setters
\* the objects after `self._parent = v`, `self._previous = v`, `self._next = v`
StoreParent(st, self, v) == [st EXCEPT ![self].parent = v]
StorePrevious(st, self, v) == [st EXCEPT ![self].previous = v]
StoreNext(st, self, v) == [st EXCEPT ![self].next = v]

\* parent.children[-1] if len(parent.children) > 0 else None
LastOrNone(kids) == IF Len(kids) > 0 THEN kids[Len(kids)] ELSE None

RECURSIVE set_parent(_, _, _, _)
RECURSIVE set_previous(_, _, _, _)
RECURSIVE set_next(_, _, _, _)

\* `parent.children.append(self)`, once `self.previous = ...` left r
AppendChild(r, self, parent) ==
    IF r.exc # "none" THEN r
    ELSE Ok([r.st EXCEPT ![parent].children = Append(@, self)])

\* Adopt with the membership test dropped: the body always runs
AdoptUnchecked(f, st, self, parent, fuel) ==
    IF f.exc # "none" THEN Raise(st, f.exc)
    ELSE AppendChild(set_previous(st, self, LastOrNone(st[parent].children),
                                  fuel - 1),
                     self, parent)

\* `if self not in parent.children:` and its body, f being the search
Adopt(f, st, self, parent, fuel) ==
    IF f.exc # "none" THEN Raise(st, f.exc)
    ELSE IF f.idx # 0 THEN Ok(st)
    ELSE AppendChild(set_previous(st, self, LastOrNone(st[parent].children),
                                  fuel - 1),
                     self, parent)

\* Node.parent setter
set_parent(st, self, parent, fuel) ==
    IF fuel = 0 THEN Raise(st, "RecursionError")
    ELSE IF parent = NonNode THEN Raise(st, "TypeError")
    ELSE IF ~IsNode(parent) THEN Ok(StoreParent(st, self, parent))
    ELSE Adopt(IndexFrom(StoreParent(st, self, parent),
                         st[parent].children, self, 1, fuel - 1),
               StoreParent(st, self, parent), self, parent, fuel)

\* `self.parent = other.parent`, once the partner's setter left r
AdoptParentOf(r, self, other, fuel) ==
    IF r.exc # "none" THEN r
    ELSE set_parent(r.st, self, r.st[other].parent, fuel - 1)

\* `if self != previous.next_:` and its body, g being the comparison
LinkPrevious(g, st, self, previous, fuel) ==
    IF g = "F" THEN Ok(st)
    ELSE IF g # "T" THEN Raise(st, g)
    ELSE AdoptParentOf(set_next(st, previous, self, fuel - 1), self,
                       previous, fuel)

\* Node.previous setter
set_previous(st, self, previous, fuel) ==
    IF fuel = 0 THEN Raise(st, "RecursionError")
    ELSE IF previous = NonNode THEN Raise(st, "TypeError")
    ELSE IF ~IsNode(previous) THEN Ok(StorePrevious(st, self, previous))
    ELSE IF st[previous].next = Unset
         THEN Raise(StorePrevious(st, self, previous), "AttributeError")
    ELSE LinkPrevious(NodeNe(StorePrevious(st, self, previous), self,
                             StorePrevious(st, self, previous)[previous].next,
                             fuel - 1),
                      StorePrevious(st, self, previous), self, previous, fuel)

\* `if self != next_.previous:` and its body, g being the comparison
LinkNext(g, st, self, next_, fuel) ==
    IF g = "F" THEN Ok(st)
    ELSE IF g # "T" THEN Raise(st, g)
    ELSE AdoptParentOf(set_previous(st, next_, self, fuel - 1), self,
                       next_, fuel)

\* Node.next_ setter
set_next(st, self, next_, fuel) ==
    IF fuel = 0 THEN Raise(st, "RecursionError")
    ELSE IF next_ = NonNode THEN Raise(st, "TypeError")
    ELSE IF ~IsNode(next_) THEN Ok(StoreNext(st, self, next_))
    ELSE IF st[next_].previous = Unset
         THEN Raise(StoreNext(st, self, next_), "AttributeError")
    ELSE LinkNext(NodeNe(StoreNext(st, self, next_), self,
                         StoreNext(st, self, next_)[next_].previous,
                         fuel - 1),
                  StoreNext(st, self, next_), self, next_, fuel)

\* --------------------------------------------------------- constructor
\* some other object holds a reference to n
Referenced(st, n) ==
    \E m \in NodeIds \ {n} :
        \/ st[m].parent = n
        \/ st[m].previous = n
        \/ st[m].next = n
        \/ \E i \in 1 .. Len(st[m].children) : st[m].children[i] = n

\* the loop `for child in children` of Node.__init__ from index i on, r
\* being what the loop left so far
RECURSIVE InitChildren(_, _, _, _, _)
InitChildren(r, self, children, i, fuel) ==
    IF r.exc # "none" THEN r
    ELSE IF i > Len(children) THEN r
    ELSE IF ~IsNode(children[i]) THEN Raise(r.st, "TypeError")
    ELSE InitChildren(set_parent(r.st, children[i], self, fuel), self,
                      children, i + 1, fuel)

\* `self.action = action`, once the wiring left r
InitAction(r, self) ==
    IF r.exc # "none" THEN r ELSE Ok([r.st EXCEPT ![self].action = None])

\* Node.__init__ from `self._next = next_` on
InitNext(r, self, next_, fuel) ==
    IF r.exc # "none" THEN r
    ELSE InitAction(IF IsNode(next_)
                    THEN set_previous(StoreNext(r.st, self, next_), next_,
                                      self, fuel)
                    ELSE Ok(StoreNext(r.st, self, next_)),
                    self)

\* Node.__init__ from `self._previous = previous` on
InitPrevious(r, self, previous, next_, fuel) ==
    IF r.exc # "none" THEN r
    ELSE InitNext(IF IsNode(previous)
                  THEN set_next(StorePrevious(r.st, self, previous),
                                previous, self, fuel)
                  ELSE Ok(StorePrevious(r.st, self, previous)),
                  self, next_, fuel)

\* Node.__init__ from `self.data = data` on, for the new object `self`
InitBody(st, self, data, parent, children, previous, next_, fuel) ==
    LET s1 == [st EXCEPT ![self].data = data, ![self].parent = parent]
        s2 == IF IsNode(parent)
              THEN [s1 EXCEPT ![parent].children = Append(@, self)]
              ELSE s1
        s3 == [s2 EXCEPT ![self].children = children]
    IN  InitPrevious(InitChildren(Ok(s3), self, children, 1, fuel),
                     self, previous, next_, fuel)

\* Node.__init__: the argument checks, then the body
Node__init__(st, self, data, parent, children, previous, next_) ==
    IF parent = NonNode \/ previous = NonNode \/ next_ = NonNode
    THEN Raise(st, "TypeError")
    ELSE InitBody(st, self, data, parent, children, previous, next_,
                  RecursionLimit - 1)

\* ------------------------------------------------------ read accessors
\* degree counting the node itself along with its children
degreeWithSelf(st, self) == Len(st[self].children) + 1

degree(st, self) == Len(st[self].children)

isinternal(st, self) == Len(st[self].children) >= 1

isexternal(st, self) == Len(st[self].children) = 0

isroot(st, self) == st[self].parent = None

\* the while loop of Node.depth; it does not end on a cycle of parents,
\* which is the case exactly when more than MaxNodes hops are made
RECURSIVE DepthLoop(_, _, _)
DepthLoop(st, currentnode, depth) ==
    IF st[currentnode].parent = None THEN depth
    ELSE IF depth >= MaxNodes THEN 0 - 1
    ELSE DepthLoop(st, st[currentnode].parent, depth + 1)

depth(st, self) == DepthLoop(st, self, 0)

RemoveAt(xs, i) == SubSeq(xs, 1, i - 1) \o SubSeq(xs, i + 1, Len(xs))

Returned(st, val) == [st |-> st, exc |-> "none", val |-> val]

\* `siblings.remove(self)` and the return, f being the search of remove
RemoveSelf(f, st, parent) ==
    IF f.exc # "none" THEN [st |-> st, exc |-> f.exc, val |-> << >>]
    ELSE IF f.idx = 0 THEN [st |-> st, exc |-> "ValueError", val |-> << >>]
    ELSE Returned([st EXCEPT ![parent].children = RemoveAt(@, f.idx)],
                  RemoveAt(st[parent].children, f.idx))

\* Node.siblings: the returned tuple and the objects afterwards
siblings(st, self) ==
    IF isroot(st, self) THEN Returned(st, << >>)
    ELSE RemoveSelf(IndexFrom(st, st[st[self].parent].children, self, 1,
                              RecursionLimit - 1),
                    st, st[self].parent)

\* ---------------------------------------------------------- the machine
Live == 1 .. created
Args == Live \cup {None, NonNode}          \* a parent / previous / next_
Items == Live \cup {NonNode}               \* an element of a collection

SeqsUpTo(S, n) == UNION { [1 .. k -> S] : k \in 0 .. n }

\* the call just made: the operation, its receiver and the value passed
\* (for Node(...) and for a children assignment, the collection of
\* children); for the three relation setters, also the value replaced
Call(op, self, arg, old) ==
    [op |-> op, self |-> self, arg |-> arg, old |-> old]

NoCall == Call("none", None, None, None)

Init ==
    /\ nodes = [n \in NodeIds |-> NewObject]
    /\ created = 0
    /\ ops = 0
    /\ payload \in Payloads
    /\ valid = TRUE
    /\ lastOp = NoCall
    /\ outcome = "none"
    /\ result = None
    /\ datas = [d \in DataIds |-> NewData]
    /\ dcreated = 0

\* the machine after a call of Node(...) that left r, for the new object
\* `self`: the object is kept when the call returned or left a reference
\* to it in another object
Constructed(r, self, children) ==
    /\ nodes' = IF r.exc = "none" \/ Referenced(r.st, self) THEN r.st
                ELSE [r.st EXCEPT ![self] = NewObject]
    /\ created' = IF r.exc = "none" \/ Referenced(r.st, self) THEN self
                  ELSE created
    /\ lastOp' = Call("Node", self, children, None)
    /\ outcome' = r.exc
    /\ result' = None
    /\ ops' = ops + 1
    /\ UNCHANGED << payload, dataVars >>

\* Node(payload, parent, children, previous, next_)
DoConstruct(parent, children, previous, next_) ==
    /\ Constructed(Node__init__(nodes, created + 1, payload, parent,
                                children, previous, next_), created + 1,
                   children)
    /\ valid' = (valid /\ NonNode \notin {parent, previous, next_}
                       /\ \A i \in 1 .. Len(children) : IsNode(children[i]))

Construct ==
    /\ created < MaxNodes
    /\ ops < MaxOps
    /\ \E parent \in Args, previous \in Args, next_ \in Args,
          children \in SeqsUpTo(Items, MaxChildrenArg) :
         DoConstruct(parent, children, previous, next_)

Assign(r, isValid) ==
    /\ nodes' = r.st
    /\ outcome' = r.exc
    /\ result' = None
    /\ ops' = ops + 1
    /\ valid' = (valid /\ isValid)
    /\ UNCHANGED << created, payload, dataVars >>

\* node.parent = parent
SetParent ==
    /\ ops < MaxOps
    /\ \E self \in Live, parent \in Args :
         /\ lastOp' = Call("parent", self, parent, nodes[self].parent)
         /\ Assign(set_parent(nodes, self, parent, RecursionLimit),
                   parent # NonNode)

\* node.previous = previous
SetPrevious ==
    /\ ops < MaxOps
    /\ \E self \in Live, previous \in Args :
         /\ lastOp' = Call("previous", self, previous, nodes[self].previous)
         /\ Assign(set_previous(nodes, self, previous, RecursionLimit),
                   previous # NonNode)

\* node.next_ = next_
SetNext ==
    /\ ops < MaxOps
    /\ \E self \in Live, next_ \in Args :
         /\ lastOp' = Call("next_", self, next_, nodes[self].next)
         /\ Assign(set_next(nodes, self, next_, RecursionLimit),
                   next_ # NonNode)

\* node.children = children: a plain attribute, stored as given
SetChildren ==
    /\ ops < MaxOps
    /\ \E self \in Live, children \in SeqsUpTo(Items, MaxChildrenArg) :
         /\ lastOp' = Call("children", self, children, None)
         /\ Assign(Ok([nodes EXCEPT ![self].children = children]),
                   \A i \in 1 .. Len(children) : IsNode(children[i]))

\* a read accessor that returns val
Read(op, self, val) ==
    /\ lastOp' = Call(op, self, None, None)
    /\ outcome' = "none"
    /\ result' = val
    /\ ops' = ops + 1
    /\ UNCHANGED << nodeVars, dataVars >>

DoReadDegree(self) == Read("degree", self, degree(nodes, self))

\* on a cycle of parents the loop of depth never returns
DoReadDepth(self) ==
    /\ lastOp' = Call("depth", self, None, None)
    /\ outcome' = IF depth(nodes, self) < 0 THEN "diverges" ELSE "none"
    /\ result' = depth(nodes, self)
    /\ ops' = ops + 1
    /\ UNCHANGED << nodeVars, dataVars >>

DoReadIsInternal(self) == Read("isinternal", self, isinternal(nodes, self))

DoReadIsExternal(self) == Read("isexternal", self, isexternal(nodes, self))

DoReadIsRoot(self) == Read("isroot", self, isroot(nodes, self))

SiblingsRead(r, self) ==
    /\ lastOp' = Call("siblings", self, None, None)
    /\ nodes' = r.st
    /\ outcome' = r.exc
    /\ result' = r.val
    /\ ops' = ops + 1
    /\ UNCHANGED << created, payload, valid, dataVars >>

DoReadSiblings(self) == SiblingsRead(siblings(nodes, self), self)

ReadDegree == ops < MaxOps /\ \E self \in Live : DoReadDegree(self)

ReadDepth == ops < MaxOps /\ \E self \in Live : DoReadDepth(self)

ReadIsInternal == ops < MaxOps /\ \E self \in Live : DoReadIsInternal(self)

ReadIsExternal == ops < MaxOps /\ \E self \in Live : DoReadIsExternal(self)

ReadIsRoot == ops < MaxOps /\ \E self \in Live : DoReadIsRoot(self)

ReadSiblings == ops < MaxOps /\ \E self \in Live : DoReadSiblings(self)

Next ==
    \/ Construct
    \/ SetParent
    \/ SetPrevious
    \/ SetNext
    \/ SetChildren
    \/ ReadDegree
    \/ ReadDepth
    \/ ReadIsInternal
    \/ ReadIsExternal
    \/ ReadIsRoot
    \/ ReadSiblings

Spec == Init /\ [][Next]_vars

\* ------------------------------------------------ the end-to-end scenario
ScenarioReads == 2     \* accessors read after the scenario's constructions

\* R = Node(payload)
CreateR == ops = 0 /\ DoConstruct(None, << >>, None, None)

\* A = Node(payload, parent=R)
CreateA == ops = 1 /\ DoConstruct(1, << >>, None, None)

\* B = Node(payload, previous=A)
CreateB == ops = 2 /\ DoConstruct(None, << >>, 2, None)

\* then the accessors are read
ScenarioRead ==
    /\ ops >= 3
    /\ ops < 3 + ScenarioReads
    /\ \E self \in Live :
         \/ DoReadDegree(self)
         \/ DoReadDepth(self)
         \/ DoReadIsInternal(self)
         \/ DoReadIsExternal(self)
         \/ DoReadIsRoot(self)
         \/ DoReadSiblings(self)

ScenarioNext == CreateR \/ CreateA \/ CreateB \/ ScenarioRead

ScenarioSpec == Init /\ [][ScenarioNext]_vars

\* ----------------------------------------------------- the Data machine
DLive == 1 .. dcreated
Operands == DLive \cup {NonData}
DictsOver(K) == UNION { [D -> Vals] : D \in SUBSET K }
KeywordDicts == DictsOver({StrKey(n) : n \in Names})
ItemKeys == {IntKey(i) : i \in 0 .. MaxArgs - 1} \cup {StrKey(n) : n \in Names}

DataInit == Init /\ payload = "Data"

\* a call on Data objects that leaves st, raises exc and returns val
DataCall(op, self, arg, st, exc, val) ==
    /\ lastOp' = Call(op, self, arg, None)
    /\ datas' = st
    /\ outcome' = exc
    /\ result' = val
    /\ ops' = ops + 1
    /\ UNCHANGED nodeVars

\* d = Data(*args, **kwargs)
DataNew ==
    /\ ops < MaxDataOps
    /\ dcreated < MaxDatas
    /\ \E args \in SeqsUpTo(Vals, MaxArgs), kwargs \in KeywordDicts :
         /\ DataCall("Data", dcreated + 1, [args |-> args, kwargs |-> kwargs],
                     [datas EXCEPT ![dcreated + 1] = Data__init__(args, kwargs)],
                     "none", None)
         /\ dcreated' = dcreated + 1

\* d + data
DataAdd ==
    /\ ops < MaxDataOps
    /\ \E self \in DLive, data \in Operands :
         /\ DataCall("__add__", self, data, datas,
                     Data__add__(datas, self, data).exc,
                     Data__add__(datas, self, data).val)
         /\ UNCHANGED dcreated

\* d += data
DataIAdd ==
    /\ ops < MaxDataOps
    /\ \E self \in DLive, data \in Operands :
         /\ DataCall("__iadd__", self, data,
                     Data__iadd__(datas, self, data).st,
                     Data__iadd__(datas, self, data).exc, None)
         /\ UNCHANGED dcreated

\* d[key] = value
DataSetItem ==
    /\ ops < MaxDataOps
    /\ \E self \in DLive, key \in ItemKeys, value \in Vals :
         /\ DataCall("__setitem__", self, [key |-> key, value |-> value],
                     Data__setitem__(datas, self, key, value), "none", None)
         /\ UNCHANGED dcreated

\* d.data
DataRead ==
    /\ ops < MaxDataOps
    /\ \E self \in DLive :
         /\ DataCall("data", self, None, datas, "none",
                     Data_data(datas[self]))
         /\ UNCHANGED dcreated

DataNext ==
    \/ DataNew
    \/ DataAdd
    \/ DataIAdd
    \/ DataSetItem
    \/ DataRead

DataSpec == DataInit /\ [][DataNext]_vars

\* ------------------------------------------------------------ the claims
Member(a, xs) == \E i \in 1 .. Len(xs) : xs[i] = a

Count(xs, a) == Cardinality({i \in 1 .. Len(xs) : xs[i] = a})

\* xs without the items that are a, in order
Without(xs, a) == SelectSeq(xs, LAMBDA x : x # a)

\* the constructor has run to its end on n
Complete(n) == nodes[n].action # Unset

\* C1: after any sequence of constructions and assignments with valid
\* arguments, a node whose parent is B occurs exactly once in B.children.
C1_ParentChildSymmetry ==
    valid => \A a \in Live, b \in Live :
                 nodes[a].parent = b => Count(nodes[b].children, a) = 1

\* C2: after any sequence of constructions and assignments with valid
\* arguments, A.next is B if and only if B.previous is A.
C2_ChainSymmetry ==
    valid => \A a \in Live, b \in Live :
                 nodes[a].next = b <=> nodes[b].previous = a

\* C3: every construction and every parent / previous / next_ assignment
\* with valid arguments terminates: the mutual recursion of the setters is
\* stopped by the guard and never exhausts the interpreter's stack.
C3_SettersTerminate ==
    (valid /\ lastOp.op \in {"Node", "parent", "previous", "next_"})
        => outcome # "RecursionError"

\* C4: in the end-to-end scenario, R.children is [A] once A is built, and
\* once B is built with previous=A: A.next is B, B.previous is A, B.parent
\* is R, R.children is [A, B], B.depth is 1 and A.siblings is (B,).
C4_EndToEnd ==
    /\ ops = 2 => nodes[1].children = << 2 >>
    /\ ops = 3 => /\ outcome = "none"
                  /\ created = 3
                  /\ nodes[2].next = 3
                  /\ nodes[3].previous = 2
                  /\ nodes[3].parent = 1
                  /\ nodes[1].children = << 2, 3 >>
                  /\ depth(nodes, 3) = 1
                  /\ siblings(nodes, 2).val = << 3 >>

\* C5: when A.parent is P, B.parent is None and A, B are not linked, the
\* assignment A.next_ = B leaves B.parent being P, B in P.children and
\* A.parent still P.
C5_NextPropagatesParent ==
    [][\A a \in Live, b \in Live, p \in Live :
          (/\ valid'
           /\ lastOp'.op = "next_" /\ lastOp'.self = a /\ lastOp'.arg = b
           /\ p \notin {a, b}
           /\ Complete(a) /\ Complete(b) /\ Complete(p)
           /\ nodes[a].parent = p
           /\ nodes[b].parent = None
           /\ nodes[a].next # b
           /\ nodes[b].previous # a)
          => (/\ nodes'[b].parent = p
              /\ Member(b, nodes'[p].children)
              /\ nodes'[a].parent = p)]_vars

\* C6: after any sequence of constructions and assignments with valid
\* arguments, every node occurs in the children of at most one node.
C6_SingleParentMembership ==
    valid => \A n \in Live :
                 Cardinality({m \in Live : Member(n, nodes[m].children)}) <= 1

\* C7: a construction or assignment that passes a value that is neither
\* None nor a Node raises TypeError and leaves every existing node as it
\* was before the call.
C7_TypeErrorIsAtomic ==
    [][(valid /\ ~valid')
          => (/\ outcome' = "TypeError"
              /\ \A n \in Live : nodes'[n] = nodes[n])]_vars

\* C8: when A.parent is already B and A is in B.children, the assignment
\* A.parent = B returns with B.children, A.previous and A.next_ unchanged.
C8_ParentAssignmentIdempotent ==
    [][\A a \in Live, b \in Live :
          (/\ lastOp'.op = "parent" /\ lastOp'.self = a /\ lastOp'.arg = b
           /\ nodes[a].parent = b
           /\ Member(a, nodes[b].children))
          => (/\ outcome' = "none"
              /\ nodes'[b].children = nodes[b].children
              /\ nodes'[a].previous = nodes[a].previous
              /\ nodes'[a].next = nodes[a].next)]_vars

\* C8 happens: A.parent = B returned, A.parent was B before the call, and
\* A is in B.children, which holds other nodes too (the setter appends A
\* only to an empty list, so A was a member before the call)
C8_Witness ==
    /\ lastOp.op = "parent"
    /\ outcome = "none"
    /\ IsNode(lastOp.arg)
    /\ lastOp.old = lastOp.arg
    /\ Member(lastOp.self, nodes[lastOp.arg].children)
    /\ Len(nodes[lastOp.arg].children) >= 2

ReadOps ==
    {"degree", "depth", "isinternal", "isexternal", "isroot", "siblings"}

\* C9: reading degree, depth, isinternal, isexternal, isroot or siblings
\* leaves the parent, children, previous and next_ of every node unchanged.
C9_AccessorsArePure ==
    [][(valid /\ lastOp'.op \in ReadOps) => nodes' = nodes]_vars

\* C10: N.siblings returns the children of N's parent without N, in order,
\* and the empty tuple when N has no parent.
C10_SiblingsExcludeSelf ==
    [][\A n \in Live :
          (valid' /\ lastOp'.op = "siblings" /\ lastOp'.self = n)
          => (/\ outcome' = "none"
              /\ result' = IF nodes[n].parent = None THEN << >>
                           ELSE Without(nodes[nodes[n].parent].children, n))
      ]_vars

\* C11: on every node of every reachable structure, degree returns the
\* number of entries of children, isinternal returns whether degree >= 1,
\* isexternal whether degree = 0, isroot whether the node has no parent, and
\* depth returns 0 on a node without parent.
C11_DerivedAccessors ==
    [][\A n \in Live :
          lastOp'.self = n
          => (/\ lastOp'.op = "degree"
                    => (/\ outcome' = "none"
                        /\ result' = Len(nodes'[n].children))
              /\ lastOp'.op = "isinternal"
                    => (/\ outcome' = "none"
                        /\ result' = (Len(nodes'[n].children) >= 1))
              /\ lastOp'.op = "isexternal"
                    => (/\ outcome' = "none"
                        /\ result' = (Len(nodes'[n].children) = 0))
              /\ lastOp'.op = "isroot"
                    => (/\ outcome' = "none"
                        /\ result' = (nodes'[n].parent = None))
              /\ (lastOp'.op = "depth" /\ nodes'[n].parent = None)
                    => (/\ outcome' = "none"
                        /\ result' = 0))
      ]_vars

\* C11 happens: degree was read on a node that has children
C11_Witness ==
    /\ lastOp.op = "degree"
    /\ outcome = "none"
    /\ nodes[lastOp.self].children # << >>
    /\ result >= 1

\* `n.parent = parent`, `n.previous = previous`, `n.next_ = next_` run by
\* a caller one after the other; an exception ends the sequence
ThenParent(r, self, parent) ==
    IF r.exc # "none" THEN r ELSE set_parent(r.st, self, parent, RecursionLimit)

ThenPrevious(r, self, previous) ==
    IF r.exc # "none" THEN r
    ELSE set_previous(r.st, self, previous, RecursionLimit)

ThenNext(r, self, next_) ==
    IF r.exc # "none" THEN r ELSE set_next(r.st, self, next_, RecursionLimit)

\* n = Node(data) followed by the three assignments
Staged(st, self, data, parent, previous, next_) ==
    ThenNext(ThenPrevious(ThenParent(Node__init__(st, self, data, None, << >>,
                                                  None, None),
                                     self, parent),
                          self, previous),
             self, next_)

\* C12: Node(parent=P, previous=X, next_=Y) leaves the same relations on
\* every node, and the same outcome, as Node() followed by the assignments
\* of the same parent, previous and next_.
C12_ConstructorMatchesSetters ==
    (valid /\ created < MaxNodes)
        => \A parent \in Live \cup {None}, previous \in Live \cup {None},
              next_ \in Live \cup {None} :
                 Node__init__(nodes, created + 1, payload, parent, << >>,
                              previous, next_)
                     = Staged(nodes, created + 1, payload, parent, previous,
                              next_)

\* the mapping of the positions 0 .. n-1 to the positional values,
\* together with the keyword entries
Materialized(args, kwargs) ==
    [k \in {IntKey(i) : i \in 0 .. Len(args) - 1} \cup DOMAIN kwargs |->
        IF k.kind = "int" THEN args[k.i + 1] ELSE kwargs[k]]

\* C13: a Data built from positional values and keyword values has the
\* tuple of the positional values as args, the keyword mapping as kwargs
\* and, as data, the mapping of each position to its value merged with the
\* keyword entries.
C13_DataMaterialized ==
    [][lastOp'.op = "Data"
          => (/\ outcome' = "none"
              /\ datas'[lastOp'.self].args = lastOp'.arg.args
              /\ datas'[lastOp'.self].kwargs = lastOp'.arg.kwargs
              /\ Data_data(datas'[lastOp'.self])
                     = Materialized(lastOp'.arg.args, lastOp'.arg.kwargs))
      ]_vars

\* C13 happens: a Data was built from positional and keyword values
C13_Witness ==
    /\ lastOp.op = "Data"
    /\ Len(lastOp.arg.args) = MaxArgs
    /\ DOMAIN lastOp.arg.kwargs # {}
    /\ Cardinality(DOMAIN Data_data(datas[lastOp.self])) >= 3

\* C14: when n.parent = P is assigned and n is not in P.children, then
\* after the call n is the last element of P.children and occurs there
\* once, and n.previous is the element that was last in P.children before
\* the call, whose next_ is n, or None when P had no children.
C14_ParentAppendsInOrder ==
    [][\A n \in Live, p \in Live :
          (/\ valid'
           /\ lastOp'.op = "parent" /\ lastOp'.self = n /\ lastOp'.arg = p
           /\ ~Member(n, nodes[p].children))
          => (/\ outcome' = "none"
              /\ nodes'[p].children # << >>
              /\ LastOrNone(nodes'[p].children) = n
              /\ Count(nodes'[p].children, n) = 1
              /\ nodes'[n].previous = LastOrNone(nodes[p].children)
              /\ nodes[p].children # << >>
                    => nodes'[LastOrNone(nodes[p].children)].next = n)
      ]_vars

C16_PreviousAdoptsParent ==
    [][\A n \in Live, c \in Live :
          (/\ valid'
           /\ lastOp'.op = "previous" /\ lastOp'.self = n /\ lastOp'.arg = c
           /\ Complete(n) /\ Complete(c)
           /\ nodes[c].next # n)
          => (/\ nodes'[n].parent = nodes'[c].parent
              /\ IsNode(nodes'[n].parent)
                    => Member(n, nodes'[nodes'[n].parent].children))
      ]_vars

\* b directly follows a in xs
Follows(xs, a, b) ==
    \E i \in 1 .. Len(xs) - 1 : xs[i] = a /\ xs[i + 1] = b

\* C17: when B is attached as A's successor (A.next_ = B), A being a child
\* of P and B not yet in P.children, B is placed in P.children immediately
\* after A.
C17_InsertAfterPredecessor ==
    [][\A a \in Live, b \in Live, p \in Live :
          (/\ valid'
           /\ lastOp'.op = "next_" /\ lastOp'.self = a /\ lastOp'.arg = b
           /\ Complete(a) /\ Complete(b)
           /\ nodes[a].parent = p
           /\ Member(a, nodes[p].children)
           /\ ~Member(b, nodes[p].children))
          => Follows(nodes'[p].children, a, b)
      ]_vars

\* every element of xs is a Node
AllNodes(xs) == \A i \in 1 .. Len(xs) : IsNode(xs[i])

\* C18: after a node's children are set to a sequence S of Nodes, at
\* construction or by assigning node.children, node.children is S in order
\* and every element of S has the node as parent; a sequence with an
\* element that is not a Node is rejected with TypeError.
C18_ChildrenLinkBack ==
    [][\A n \in NodeIds :
          (/\ valid
           /\ lastOp'.op \in {"Node", "children"} /\ lastOp'.self = n
           /\ lastOp'.arg # << >>)
          => (/\ (valid' /\ outcome' = "none")
                    => (/\ nodes'[n].children = lastOp'.arg
                        /\ \A i \in 1 .. Len(lastOp'.arg) :
                              nodes'[lastOp'.arg[i]].parent = n)
              /\ ~AllNodes(lastOp'.arg) => outcome' = "TypeError")
      ]_vars

\* n has no parent, no children, no previous and no next_
Unlinked(n) ==
    /\ nodes[n].parent = None
    /\ nodes[n].children = << >>
    /\ nodes[n].previous = None
    /\ nodes[n].next = None

\* the six attributes of a and b compare equal, one by one
AttributesEqual(a, b) ==
    /\ DataEq(nodes[a].data, nodes[b].data)
    /\ ValEq(nodes, nodes[a].parent, nodes[b].parent, RecursionLimit) = "T"
    /\ ListEq(nodes, nodes[a].children, nodes[b].children, RecursionLimit) = "T"
    /\ ValEq(nodes, nodes[a].previous, nodes[b].previous, RecursionLimit) = "T"
    /\ ValEq(nodes, nodes[a].next, nodes[b].next, RecursionLimit) = "T"
    /\ ValEq(nodes, nodes[a].action, nodes[b].action, RecursionLimit) = "T"

\* C19: two nodes compare equal exactly when their payloads, parents,
\* children, previous, next_ and actions compare equal; in particular a
\* node without links equals itself and any other node without links that
\* has an equal payload and action.
C19_StructuralEquality ==
    valid => \A a \in Live, b \in Live :
                 (Complete(a) /\ Complete(b))
                 => (/\ (NodeEq(nodes, a, b, RecursionLimit) = "T")
                           <=> AttributesEqual(a, b)
                     /\ (Unlinked(a) /\ Unlinked(b))
                           => NodeEq(nodes, a, b, RecursionLimit) = "T")

\* C20: d + other and d += other raise TypeError exactly when other is not
\* a Data; combining two Data gives the positional values of both in order
\* and the keyword values of both (as the result of +, as the left operand
\* after +=), and a combine that raises leaves the left operand's args and
\* kwargs as they were.
C20_CombineRaisesOnlyOnNonData ==
    [][\A d \in DLive :
          (lastOp'.op \in {"__add__", "__iadd__"} /\ lastOp'.self = d)
          => (/\ (outcome' = "TypeError") <=> (lastOp'.arg = NonData)
              /\ outcome' \in {"none", "TypeError"}
              /\ (lastOp'.arg # NonData /\ lastOp'.op = "__add__")
                    => (/\ result'.args
                              = datas[d].args \o datas[lastOp'.arg].args
                        /\ result'.kwargs
                              = Merge(datas[d].kwargs,
                                      datas[lastOp'.arg].kwargs))
              /\ (lastOp'.arg # NonData /\ lastOp'.op = "__iadd__")
                    => (/\ datas'[d].args
                              = datas[d].args \o datas[lastOp'.arg].args
                        /\ datas'[d].kwargs
                              = Merge(datas[d].kwargs,
                                      datas[lastOp'.arg].kwargs))
              /\ outcome' # "none" => datas'[d] = datas[d])
      ]_vars

\* among the objects 1 .. n of st, every node listed in the children of a
\* node has that node as parent
ChildrenHaveParent(st, n) ==
    \A a \in 1 .. n, b \in 1 .. n :
        Member(a, st[b].children) => st[a].parent = b

\* C21: constructions and parent / previous / next_ assignments with valid
\* arguments keep the converse of parent/child symmetry: if A occurs in
\* B.children then A.parent is B, also after A.parent is set to None or
\* replaced.
C21_ChildrenHaveParent ==
    [][(/\ valid'
        /\ lastOp'.op \in {"Node", "parent", "previous", "next_"}
        /\ ChildrenHaveParent(nodes, created))
          => ChildrenHaveParent(nodes', created')
      ]_vars

\* the node k parent links above n, None once the links have ended
RECURSIVE KthParent(_, _, _)
KthParent(st, n, k) ==
    IF k = 0 \/ n = None THEN n ELSE KthParent(st, st[n].parent, k - 1)

\* k parent links lead from n to a node without parent
RootAfter(st, n, k) ==
    /\ KthParent(st, n, k) # None
    /\ st[KthParent(st, n, k)].parent = None

\* C22: after any sequence of constructions and assignments with valid
\* arguments the parent relation is acyclic: from every node the parent
\* links reach a node without parent in finitely many hops, and depth
\* returns that number of hops.
C22_ParentAcyclicDepthTerminates ==
    [][valid'
          => (/\ \A n \in 1 .. created' :
                    \E k \in 0 .. MaxNodes - 1 : RootAfter(nodes', n, k)
              /\ lastOp'.op = "depth"
                    => (/\ outcome' = "none"
                        /\ RootAfter(nodes', lastOp'.self, result')))
      ]_vars

====
